---- MODULE Spec2Model ----
(***************************************************************************)
(* A state-machine model of the CHIP-8 emulation core                      *)
(* (src/chip8_core/src/lib.rs): the Emu record, its constructor, reset,    *)
(* tick (fetch + execute) and tick_timers, together with the host's two    *)
(* boundary operations (program load and key input).                       *)
(***************************************************************************)
EXTENDS Integers, Sequences, FiniteSets, TLC

(***************************************************************************)
(* Program constants.                                                      *)
(***************************************************************************)
SCREEN_WIDTH == 64
SCREEN_HEIGHT == 32
RAM_SIZE == 4096
NUM_REGS == 16
STACK_SIZE == 16
NUM_KEYS == 16
START_ADDR == 512
FONTSET_SIZE == 80

\* Widths of the u8 and u16 fields of Emu.
U8 == 2^8
U16 == 2^16

FONTSET ==
    << 240, 144, 144, 144, 240,
        32,  96,  32,  32, 112,
       240,  16, 240, 128, 240,
       240,  16, 240,  16, 240,
       144, 144, 240,  16,  16,
       240, 128, 240,  16, 240,
       240, 128, 240, 144, 240,
       240,  16,  32,  64,  64,
       240, 144, 240, 144, 240,
       240, 144, 240,  16, 240,
       240, 144, 240, 144, 144,
       224, 144, 224, 144, 224,
       240, 128, 128, 128, 240,
       224, 144, 144, 144, 224,
       240, 128, 240, 128, 240,
       240, 128, 240, 128, 128 >>

(***************************************************************************)
(* Bounds of the model.                                                    *)
(***************************************************************************)
\* Call chains of 1..MaxNest nested CALLs are among the loaded programs.
MaxNest == 17
\* The host presses and releases keys 0..MaxKey.
MaxKey == 0

(***************************************************************************)
(* The machine state (struct Emu), the panic that ended the run if any,    *)
(* and two history variables: the last call into the core (new, reset,     *)
(* tick, tick_timers) with the state it acted on and the Step before it,   *)
(* and the CALL/RET events since construction or reset.  The host's writes *)
(* (program load, key input) are not calls into the core and leave the     *)
(* record alone.  cue is what the host observes of the audio cue: whether  *)
(* the last call into the core signalled one.                              *)
(***************************************************************************)
VARIABLES pc, ram, screen, v_reg, i_reg, sp, stack, keys, dt, st,
          panic, last, trace, cue

emu == <<pc, ram, screen, v_reg, i_reg, sp, stack, keys, dt, st>>
vars == <<pc, ram, screen, v_reg, i_reg, sp, stack, keys, dt, st,
          panic, last, trace, cue>>

NoPanic == [kind |-> "none", op |-> 0]

(***************************************************************************)
(* Emu::new                                                                *)
(***************************************************************************)
\* A copy that stops one byte short of the table's end.
CopyFontsetShort(mem) ==
    [a \in 0..(RAM_SIZE - 1) |-> IF a < FONTSET_SIZE - 1 THEN FONTSET[a + 1] ELSE mem[a]]

\* copy_from_slice(&FONTSET) into ram[..FONTSET_SIZE].
CopyFontset(mem) ==
    [a \in 0..(RAM_SIZE - 1) |-> IF a < FONTSET_SIZE THEN FONTSET[a + 1] ELSE mem[a]]

NewRam == CopyFontset([a \in 0..(RAM_SIZE - 1) |-> 0])
NewScreen == [p \in 0..(SCREEN_WIDTH * SCREEN_HEIGHT - 1) |-> FALSE]
NewVReg == [r \in 0..(NUM_REGS - 1) |-> 0]
NewStack == [s \in 0..(STACK_SIZE - 1) |-> 0]
NewKeys == [k \in 0..(NUM_KEYS - 1) |-> FALSE]

New ==
    /\ pc = START_ADDR
    /\ ram = NewRam
    /\ screen = NewScreen
    /\ v_reg = NewVReg
    /\ i_reg = 0
    /\ sp = 0
    /\ stack = NewStack
    /\ keys = NewKeys
    /\ dt = 0
    /\ st = 0

\* The fields a call can be compared against afterwards (ram, screen and
\* keys are compared across the step itself; of the screen the record keeps
\* whether any pixel was lit).
Snapshot == [pc |-> pc, v_reg |-> v_reg, i_reg |-> i_reg, sp |-> sp,
             stack |-> stack, dt |-> dt, st |-> st,
             lit |-> screen # NewScreen]

\* Construction and reset act on no earlier state: their record holds the
\* constructed fields.
NewSnapshot ==
    [pc |-> START_ADDR, v_reg |-> NewVReg, i_reg |-> 0, sp |-> 0,
     stack |-> NewStack, dt |-> 0, st |-> 0, lit |-> FALSE]

\* No Step yet.
NoStep == [fetched |-> FALSE, op |-> 0, v_reg |-> NewVReg]

\* The record of a call: which call, whether it fetched an opcode and which,
\* the fields it acted on (pre), whether it acted on the constructed state
\* (fresh), and the most recent Step before it: that Step's opcode and the
\* registers it acted on (before).
Called(call, fetched, op) ==
    [call |-> call, fetched |-> fetched, op |-> op, pre |-> Snapshot, fresh |-> New,
     before |-> IF last.call = "tick"
                THEN [fetched |-> last.fetched, op |-> last.op, v_reg |-> last.pre.v_reg]
                ELSE last.before]

Init ==
    /\ New
    /\ panic = NoPanic
    /\ last = [call |-> "new", fetched |-> FALSE, op |-> 0, pre |-> NewSnapshot,
               fresh |-> TRUE, before |-> NoStep]
    /\ trace = <<>>
    /\ cue = FALSE

(***************************************************************************)
(* Emu::reset                                                              *)
(***************************************************************************)
\* reset without its last line: the font table is not copied back.
ResetRamNoFont == [a \in 0..(RAM_SIZE - 1) |-> 0]

ResetRam == CopyFontset([a \in 0..(RAM_SIZE - 1) |-> 0])
ResetScreen == [p \in 0..(SCREEN_WIDTH * SCREEN_HEIGHT - 1) |-> FALSE]
ResetKeys == [k \in 0..(NUM_KEYS - 1) |-> FALSE]

Reset ==
    /\ panic.kind = "none"
    /\ pc' = START_ADDR
    /\ ram' = ResetRam
    /\ screen' = ResetScreen
    /\ v_reg' = [r \in 0..(NUM_REGS - 1) |-> 0]
    /\ i_reg' = 0
    /\ sp' = 0
    /\ stack' = [s \in 0..(STACK_SIZE - 1) |-> 0]
    /\ keys' = ResetKeys
    /\ dt' = 0
    /\ st' = 0
    /\ last' = [call |-> "reset", fetched |-> FALSE, op |-> 0, pre |-> NewSnapshot,
                fresh |-> New, before |-> NoStep]
    /\ trace' = <<>>
    /\ UNCHANGED <<panic, cue>>

(***************************************************************************)
(* Emu::tick_timers                                                        *)
(***************************************************************************)
\* The decrement without its guard: a wrapping u8 subtraction.
DecDelayWrapping(t) == (t - 1) % U8

DecDelay(t) == IF t > 0 THEN t - 1 ELSE t

DecSound(t) == IF t > 0 THEN t - 1 ELSE t

\* The audio cue tick_timers gives the host for a sound timer of t.  The
\* block under `if self.st == 1` holds a comment only, and tick_timers
\* returns nothing: no value of t makes it signal.
Beep(t) == IF t > 0 /\ t = 1 THEN FALSE ELSE FALSE

\* tick_timers moving the program on as it counts down.
TickTimersAdvancing ==
    /\ panic.kind = "none"
    /\ dt' = DecDelay(dt)
    /\ st' = DecSound(st)
    /\ cue' = Beep(st)
    /\ pc' = IF dt > 0 THEN (pc + 2) % U16 ELSE pc
    /\ last' = Called("tick_timers", FALSE, 0)
    /\ UNCHANGED <<ram, screen, v_reg, i_reg, sp, stack, keys, panic, trace>>

\* tick_timers releasing every key as it counts down.
TickTimersReleasingKeys ==
    /\ panic.kind = "none"
    /\ dt' = DecDelay(dt)
    /\ st' = DecSound(st)
    /\ cue' = Beep(st)
    /\ keys' = [k \in 0..(NUM_KEYS - 1) |-> FALSE]
    /\ last' = Called("tick_timers", FALSE, 0)
    /\ UNCHANGED <<pc, ram, screen, v_reg, i_reg, sp, stack, panic, trace>>

TickTimers ==
    /\ panic.kind = "none"
    /\ dt' = DecDelay(dt)
    /\ st' = DecSound(st)
    /\ cue' = Beep(st)
    /\ last' = Called("tick_timers", FALSE, 0)
    /\ UNCHANGED <<pc, ram, screen, v_reg, i_reg, sp, stack, keys, panic, trace>>

(***************************************************************************)
(* The host's input collaborator: sets or clears one key flag.             *)
(***************************************************************************)
KeyPress(k, pressed) ==
    /\ panic.kind = "none"
    /\ keys[k] # pressed
    /\ keys' = [keys EXCEPT ![k] = pressed]
    /\ UNCHANGED <<pc, ram, screen, v_reg, i_reg, sp, stack, dt, st, panic, last, trace, cue>>

(***************************************************************************)
(* Emu::push and Emu::pop.  The result of each is the stack pointer and    *)
(* stack it leaves and the panic it raises, if any.  An overflowing u16    *)
(* operation panics in a build with overflow checks (the debug profile)    *)
(* and wraps in a build without them (the release profile): where one      *)
(* overflows, both outcomes are possible.                                  *)
(***************************************************************************)
\* push of the address of the CALL itself instead of the address after it.
pushCallAddr(val) ==
    IF sp >= STACK_SIZE
    THEN [sp |-> sp, stack |-> stack,
          panic |-> [kind |-> "index_out_of_bounds", op |-> 0]]
    ELSE [sp |-> (sp + 1) % U16, stack |-> [stack EXCEPT ![sp] = val - 2],
          panic |-> NoPanic]

push(val) ==
    IF sp >= STACK_SIZE
    THEN [sp |-> sp, stack |-> stack,
          panic |-> [kind |-> "index_out_of_bounds", op |-> 0]]
    ELSE [sp |-> (sp + 1) % U16, stack |-> [stack EXCEPT ![sp] = val],
          panic |-> NoPanic]

\* self.sp -= 1, then self.stack[self.sp as usize], in a build with
\* overflow checks (checks) or without.
popIn(checks) ==
    IF sp = 0 /\ checks
    THEN [sp |-> sp, val |-> 0,
          panic |-> [kind |-> "arithmetic_overflow", op |-> 0]]
    ELSE LET dec == (sp - 1) % U16
         IN  IF dec >= STACK_SIZE
             THEN [sp |-> dec, val |-> 0,
                   panic |-> [kind |-> "index_out_of_bounds", op |-> 0]]
             ELSE [sp |-> dec, val |-> stack[dec], panic |-> NoPanic]

pop == IF sp = 0 THEN {popIn(TRUE), popIn(FALSE)} ELSE {popIn(FALSE)}

(***************************************************************************)
(* Emu::fetch                                                              *)
(***************************************************************************)
\* Indexing ram at pc or at pc + 1 is out of bounds.  (pc + 1 is a u16
\* addition, reached only when pc < RAM_SIZE, so it cannot overflow.)
FetchPanics == pc >= RAM_SIZE \/ (pc + 1) % U16 >= RAM_SIZE

\* The two bytes taken in the other order.
FetchOpLittleEndian == ram[pc + 1] * 256 + ram[pc]

\* (higher_byte << 8) | lower_byte
FetchOp == ram[pc] * 256 + ram[pc + 1]

\* A fetch that does not move on.
FetchPcStuck == pc

\* A fetch that moves on by two opcodes.
FetchPcFour == (pc + 4) % U16

FetchPc == (pc + 2) % U16

(***************************************************************************)
(* Emu::execute                                                            *)
(***************************************************************************)
Digit1(op) == op \div 4096
Digit2(op) == (op \div 256) % 16
Digit3(op) == (op \div 16) % 16
Digit4(op) == op % 16

\* The match with the 5XY0 arm written (5, _, _, _): it takes 5XY1..5XYF too.
MnemonicWide5(op) ==
    LET d1 == op \div 4096
        d2 == (op \div 256) % 16
        d3 == (op \div 16) % 16
        d4 == op % 16
    IN  CASE d1 = 0 /\ d2 = 0 /\ d3 = 0 /\ d4 = 0 -> "NOP"
          [] d1 = 0 /\ d2 = 0 /\ d3 = 14 /\ d4 = 0 -> "CLS"
          [] d1 = 0 /\ d2 = 0 /\ d3 = 14 /\ d4 = 14 -> "RET"
          [] d1 = 1 -> "JMP"
          [] d1 = 2 -> "CALL"
          [] d1 = 3 -> "SKIP_EQ_IMM"
          [] d1 = 4 -> "SKIP_NEQ_IMM"
          [] d1 = 5 -> "SKIP_EQ_REG"
          [] d1 = 6 -> "LOAD_IMM"
          [] d1 = 7 -> "ADD_IMM"
          [] d1 = 8 /\ d4 = 0 -> "COPY"
          [] d1 = 8 /\ d4 = 1 -> "OR"
          [] d1 = 8 /\ d4 = 2 -> "AND"
          [] d1 = 8 /\ d4 = 3 -> "XOR"
          [] OTHER -> "UNIMPLEMENTED"

\* The arm of the match that takes the opcode, in the order of the arms.
Mnemonic(op) ==
    LET d1 == Digit1(op)
        d2 == Digit2(op)
        d3 == Digit3(op)
        d4 == Digit4(op)
    IN  CASE d1 = 0 /\ d2 = 0 /\ d3 = 0 /\ d4 = 0 -> "NOP"
          [] d1 = 0 /\ d2 = 0 /\ d3 = 14 /\ d4 = 0 -> "CLS"
          [] d1 = 0 /\ d2 = 0 /\ d3 = 14 /\ d4 = 14 -> "RET"
          [] d1 = 1 -> "JMP"
          [] d1 = 2 -> "CALL"
          [] d1 = 3 -> "SKIP_EQ_IMM"
          [] d1 = 4 -> "SKIP_NEQ_IMM"
          [] d1 = 5 /\ d4 = 0 -> "SKIP_EQ_REG"
          [] d1 = 6 -> "LOAD_IMM"
          [] d1 = 7 -> "ADD_IMM"
          [] d1 = 8 /\ d4 = 0 -> "COPY"
          [] d1 = 8 /\ d4 = 1 -> "OR"
          [] d1 = 8 /\ d4 = 2 -> "AND"
          [] d1 = 8 /\ d4 = 3 -> "XOR"
          [] OTHER -> "UNIMPLEMENTED"

\* u8::saturating_add, and the addition that keeps the carry.
saturating_add(a, b) == IF a + b >= U8 THEN U8 - 1 ELSE a + b
widening_add(a, b) == a + b

\* u8::wrapping_add
wrapping_add(a, b) == (a + b) % U8

\* The bitwise operators of u8, bit by bit from the lowest.
RECURSIVE BitOr(_, _, _)
BitOr(a, b, n) ==
    IF n = 0 THEN 0
    ELSE (IF a % 2 = 1 \/ b % 2 = 1 THEN 1 ELSE 0) + 2 * BitOr(a \div 2, b \div 2, n - 1)

\* |= where &= is meant.
RECURSIVE BitAndAsOr(_, _, _)
BitAndAsOr(a, b, n) ==
    IF n = 0 THEN 0
    ELSE (IF a % 2 = 1 \/ b % 2 = 1 THEN 1 ELSE 0) + 2 * BitAndAsOr(a \div 2, b \div 2, n - 1)

RECURSIVE BitAnd(_, _, _)
BitAnd(a, b, n) ==
    IF n = 0 THEN 0
    ELSE (IF a % 2 = 1 /\ b % 2 = 1 THEN 1 ELSE 0) + 2 * BitAnd(a \div 2, b \div 2, n - 1)

RECURSIVE BitXor(_, _, _)
BitXor(a, b, n) ==
    IF n = 0 THEN 0
    ELSE (IF a % 2 # b % 2 THEN 1 ELSE 0) + 2 * BitXor(a \div 2, b \div 2, n - 1)

\* A skip of two opcodes.
SkipPcFour(p) == (p + 4) % U16

\* self.pc += 2 of a skip: the value, and whether the u16 addition overflows.
SkipPc(p) == (p + 2) % U16
SkipOverflows(p) == p + 2 >= U16

\* A skip that does not test its condition.
SkipAlways(base, cond) == {[base EXCEPT !.pc = (base.pc + 2) % U16]}

\* The arms that skip: the program counter the arm leaves when its condition
\* holds (or, where the addition overflows, also the overflow panic).
Skip(base, cond) ==
    IF ~cond THEN {base}
    ELSE {[base EXCEPT !.pc = SkipPc(base.pc)]}
         \cup (IF SkipOverflows(base.pc)
               THEN {[base EXCEPT !.panic = [kind |-> "arithmetic_overflow", op |-> 0]]}
               ELSE {})

\* A clear that reaches the top row of the screen only.
ClearTopRow ==
    [p \in 0..(SCREEN_WIDTH * SCREEN_HEIGHT - 1) |-> IF p < SCREEN_WIDTH THEN FALSE ELSE screen[p]]

\* self.screen = [false; SCREEN_WIDTH * SCREEN_HEIGHT] of CLS.
ClearScreen == [p \in 0..(SCREEN_WIDTH * SCREEN_HEIGHT - 1) |-> FALSE]

\* execute(op) on the state fetch left (pc1 is the program counter after the
\* fetch): the outcomes it can have, each the fields execute assigns and the
\* panic it raises, if any.
Execute(op, pc1) ==
    LET x == Digit2(op)
        y == Digit3(op)
        nn == op % 256
        nnn == op % 4096
        m == Mnemonic(op)
        base == [pc |-> pc1, screen |-> screen, v_reg |-> v_reg, sp |-> sp,
                 stack |-> stack, panic |-> NoPanic]
    IN  CASE m = "NOP" -> {base}
          [] m = "CLS" -> {[base EXCEPT !.screen = ClearScreen]}
          [] m = "RET" ->
               {IF r.panic.kind # "none"
                THEN [base EXCEPT !.sp = r.sp, !.panic = r.panic]
                ELSE [base EXCEPT !.sp = r.sp, !.pc = r.val] : r \in pop}
          [] m = "JMP" -> {[base EXCEPT !.pc = nnn]}
          [] m = "CALL" ->
               LET r == push(pc1)
               IN  IF r.panic.kind # "none"
                   THEN {[base EXCEPT !.panic = r.panic]}
                   ELSE {[base EXCEPT !.sp = r.sp, !.stack = r.stack, !.pc = nnn]}
          [] m = "SKIP_EQ_IMM" -> Skip(base, v_reg[x] = nn)
          [] m = "SKIP_NEQ_IMM" -> Skip(base, v_reg[x] # nn)
          [] m = "SKIP_EQ_REG" -> Skip(base, v_reg[x] = v_reg[y])
          [] m = "LOAD_IMM" -> {[base EXCEPT !.v_reg[x] = nn]}
          [] m = "ADD_IMM" -> {[base EXCEPT !.v_reg[x] = wrapping_add(v_reg[x], nn)]}
          [] m = "COPY" -> {[base EXCEPT !.v_reg[x] = v_reg[y]]}
          [] m = "OR" -> {[base EXCEPT !.v_reg[x] = BitOr(v_reg[x], v_reg[y], 8)]}
          [] m = "AND" -> {[base EXCEPT !.v_reg[x] = BitAnd(v_reg[x], v_reg[y], 8)]}
          [] m = "XOR" -> {[base EXCEPT !.v_reg[x] = BitXor(v_reg[x], v_reg[y], 8)]}
          [] OTHER -> {[base EXCEPT !.panic = [kind |-> "unimplemented", op |-> op]]}

(***************************************************************************)
(* Emu::tick: fetch, then execute the fetched opcode.  A panic in fetch    *)
(* leaves every field as it was; a panic in execute leaves what fetch and  *)
(* execute had assigned before it.                                         *)
(***************************************************************************)
\* The CALL/RET events: a CALL that completes records the address after the
\* CALL instruction, a RET that completes records the program counter it set.
Traced(op, r) ==
    IF r.panic.kind # "none" THEN trace
    ELSE IF Mnemonic(op) = "CALL" THEN Append(trace, [ev |-> "call", addr |-> pc + 2])
    ELSE IF Mnemonic(op) = "RET" THEN Append(trace, [ev |-> "ret", addr |-> r.pc])
    ELSE trace

TickFetchPanic ==
    /\ FetchPanics
    /\ panic' = [kind |-> "index_out_of_bounds", op |-> 0]
    /\ last' = Called("tick", FALSE, 0)
    /\ UNCHANGED <<pc, ram, screen, v_reg, i_reg, sp, stack, keys, dt, st, trace, cue>>

TickExecute ==
    /\ ~FetchPanics
    /\ \E r \in Execute(FetchOp, FetchPc) :
           /\ pc' = r.pc
           /\ screen' = r.screen
           /\ v_reg' = r.v_reg
           /\ sp' = r.sp
           /\ stack' = r.stack
           /\ panic' = r.panic
           /\ last' = Called("tick", TRUE, FetchOp)
           /\ trace' = Traced(FetchOp, r)
    /\ UNCHANGED <<ram, i_reg, keys, dt, st, cue>>

Tick ==
    /\ panic.kind = "none"
    /\ \/ TickFetchPanic
       \/ TickExecute

(***************************************************************************)
(* Program load: before the first Step the host writes the program's bytes *)
(* into memory from START_ADDR on.                                         *)
(***************************************************************************)
Loaded(mem, data) ==
    [a \in 0..(RAM_SIZE - 1) |->
        IF a >= START_ADDR /\ a < START_ADDR + Len(data)
        THEN data[a - START_ADDR + 1] ELSE mem[a]]

Load(data) ==
    /\ panic.kind = "none"
    /\ pc = START_ADDR
    /\ ram = NewRam
    /\ Len(data) <= RAM_SIZE - START_ADDR
    /\ ram' = Loaded(ram, data)
    /\ UNCHANGED <<pc, screen, v_reg, i_reg, sp, stack, keys, dt, st, panic, last, trace, cue>>

(***************************************************************************)
(* The programs the host loads.  A program is a sequence of opcodes; its   *)
(* bytes are the opcodes' big-endian byte pairs.                           *)
(***************************************************************************)
Opcode(d1, d2, d3, d4) == d1 * 4096 + d2 * 256 + d3 * 16 + d4
XNN(d1, x, nn) == d1 * 4096 + x * 256 + nn
NNN(d1, nnn) == d1 * 4096 + nnn

Bytes(ops) ==
    [i \in 1..(2 * Len(ops)) |->
        IF i % 2 = 1 THEN ops[(i + 1) \div 2] \div 256 ELSE ops[i \div 2] % 256]

\* The address of the k-th opcode of a program, and a jump to it (the
\* program's way of halting: a jump to itself).
AddrOf(k) == START_ADDR + 2 * (k - 1)
Halt(k) == NNN(1, AddrOf(k))

\* The immediates, the contents of V0 and V1, and the register pairs the
\* programs use.
TestVals == {0, 5, 255}
TestContents == {<<0, 0>>, <<5, 3>>, <<5, 255>>, <<255, 5>>, <<255, 255>>}
TestPairs == {<<0, 1>>, <<1, 0>>, <<0, 0>>, <<15, 0>>, <<0, 15>>}
\* Jump and call targets: the font area, a halt, the last opcode slot of
\* memory, and the last byte of memory.
TestTargets == {0, AddrOf(5), RAM_SIZE - 2, RAM_SIZE - 1}

\* Opcodes whose effect depends on the registers.
RegisterOps ==
    {XNN(d1, x, nn) : d1 \in {3, 4, 6, 7}, x \in {0, 15}, nn \in TestVals}
    \cup {Opcode(5, xy[1], xy[2], 0) : xy \in TestPairs}
    \cup {Opcode(8, xy[1], xy[2], d4) : xy \in TestPairs, d4 \in 0..3}

\* Opcodes whose effect does not: control flow, and opcodes of no arm.
OtherOps ==
    {0, 224, 238}
    \cup {NNN(d1, t) : d1 \in {1, 2}, t \in TestTargets}
    \cup {NNN(2, AddrOf(3))}
    \cup {1, 225, 239, 256, 1774, 4095}
    \cup {Opcode(5, 0, 1, d4) : d4 \in {1, 15}}
    \cup {Opcode(8, 0, 1, d4) : d4 \in {4, 14, 15}}
    \cup {NNN(d1, 18) : d1 \in 9..15}

\* V0 := a; V1 := b; op; then a halt for each of the two places op can leave
\* the program counter at.
RegisterProgram(a, b, op) == <<XNN(6, 0, a), XNN(6, 1, b), op, Halt(4), Halt(5)>>

\* V[x] := v; V[x] += nn1; V[x] += nn2; halt.
AddProgram(x, v, nn1, nn2) == <<XNN(6, x, v), XNN(7, x, nn1), XNN(7, x, nn2), Halt(4)>>

\* n nested calls, each to the next call, and a return after each call and
\* at the end of the chain: CALL; RET; CALL; RET; ...; RET.
NestedCalls(n) ==
    [k \in 1..(2 * n + 1) |->
        IF k % 2 = 1 /\ k < 2 * n + 1 THEN NNN(2, AddrOf(k + 2)) ELSE 238]

\* A jump to the last opcode slot of memory, and op there.
FarProgram(op) ==
    [k \in 1..((RAM_SIZE - START_ADDR) \div 2) |->
        IF k = 1 THEN NNN(1, RAM_SIZE - 2)
        ELSE IF k = (RAM_SIZE - START_ADDR) \div 2 THEN op ELSE 0]

Programs ==
    {RegisterProgram(ab[1], ab[2], op) : ab \in TestContents, op \in RegisterOps}
    \cup {RegisterProgram(5, 3, op) : op \in OtherOps}
    \cup {AddProgram(x, v, nn1, nn2) : x \in {0, 15}, v \in {0, 5}, nn1 \in {3, 255}, nn2 \in {5, 255}}
    \cup {NestedCalls(n) : n \in 1..MaxNest}
    \cup {FarProgram(op) : op \in {0, XNN(3, 0, 0), XNN(4, 0, 0), NNN(2, RAM_SIZE - 2)}}

\* The byte images of the programs.
Images == {Bytes(prog) : prog \in Programs}

(***************************************************************************)
(* The machine driven by its host.                                         *)
(***************************************************************************)
\* The host steps the program it has loaded.
Step == ram # NewRam /\ Tick

Next ==
    \/ Reset
    \/ \E data \in Images : Load(data)
    \/ \E k \in 0..MaxKey, pressed \in BOOLEAN : KeyPress(k, pressed)
    \/ Step
    \/ TickTimers

Spec == Init /\ [][Next]_vars

(***************************************************************************)
(* The decoder, opcode by opcode: the host loads one opcode at START_ADDR   *)
(* and steps once.  The opcodes have every first and every last digit; the *)
(* second and third digits are those the match tells apart (0, 14) and     *)
(* register indices (0, 1, 15).                                            *)
(***************************************************************************)
DecodeOps ==
    {Opcode(d1, d2, d3, d4) : d1 \in 0..15, d2 \in {0, 1, 15}, d3 \in {0, 1, 14, 15}, d4 \in 0..15}

DecodeImages == {Bytes(<<op>>) : op \in DecodeOps}

LoadOpcode == \E data \in DecodeImages : Load(data)

FirstStep == last.call = "new" /\ Tick

NextDecode == LoadOpcode \/ FirstStep

SpecDecode == Init /\ [][NextDecode]_vars

(***************************************************************************)
(* tick_timers on every pair of timer values.  No opcode of the            *)
(* implemented subset sets a timer, so the values are drawn here.          *)
(***************************************************************************)
InitTimers ==
    /\ pc = START_ADDR
    /\ ram = NewRam
    /\ screen = NewScreen
    /\ v_reg = NewVReg
    /\ i_reg = 0
    /\ sp = 0
    /\ stack = NewStack
    /\ keys = NewKeys
    /\ dt \in 0..(U8 - 1)
    /\ st \in 0..(U8 - 1)
    /\ panic = NoPanic
    /\ last = [call |-> "new", fetched |-> FALSE, op |-> 0,
               pre |-> [NewSnapshot EXCEPT !.dt = dt, !.st = st],
               fresh |-> TRUE, before |-> NoStep]
    /\ trace = <<>>
    /\ cue = FALSE

SpecTimers == InitTimers /\ [][TickTimers]_vars

(***************************************************************************)
(* The machine with a screen and timers that hold something.  No opcode of *)
(* the implemented subset draws or sets a timer, so the screen contents    *)
(* and the timer values are drawn here; the host loads a program, steps it *)
(* and ticks the timers at rates of its own.                               *)
(***************************************************************************)
Pixels == 0..(SCREEN_WIDTH * SCREEN_HEIGHT - 1)

TestScreens ==
    {[p \in Pixels |-> p \in lit] :
        lit \in {{}, {0}, {SCREEN_WIDTH * SCREEN_HEIGHT - 1}, {p \in Pixels : p % 2 = 0}, Pixels}}

TestTimers == {0, 1, 2}

DrawnPrograms ==
    {<<224, Halt(2)>>,
     <<XNN(6, 0, 5), 224, XNN(7, 0, 255), Halt(4)>>,
     <<NNN(2, AddrOf(3)), Halt(2), 224, 238>>,
     <<224, 238>>,
     <<XNN(3, 0, 0), 0, 224, Opcode(5, 0, 1, 1)>>}

DrawnImages == {Bytes(prog) : prog \in DrawnPrograms}

InitDrawn ==
    /\ pc = START_ADDR
    /\ ram = NewRam
    /\ screen \in TestScreens
    /\ v_reg = NewVReg
    /\ i_reg = 0
    /\ sp = 0
    /\ stack = NewStack
    /\ keys = NewKeys
    /\ dt \in TestTimers
    /\ st \in TestTimers
    /\ panic = NoPanic
    /\ last = [call |-> "new", fetched |-> FALSE, op |-> 0,
               pre |-> [NewSnapshot EXCEPT !.dt = dt, !.st = st,
                                           !.lit = \E p \in Pixels : screen[p]],
               fresh |-> TRUE, before |-> NoStep]
    /\ trace = <<>>
    /\ cue = FALSE

LoadDrawn == \E data \in DrawnImages : Load(data)

NextDrawn == LoadDrawn \/ Step \/ TickTimers

SpecDrawn == InitDrawn /\ [][NextDrawn]_vars

(***************************************************************************)
(* Straight-line runs: the host steps the machine as constructed (memory   *)
(* from START_ADDR up all zero) or loaded with a program that has no JMP,  *)
(* CALL or RET, and keeps stepping it for as long as it has not panicked.  *)
(***************************************************************************)
\* All NOP up to the last opcode slot of memory, and op there.
StraightTo(op) ==
    [k \in 1..((RAM_SIZE - START_ADDR) \div 2) |->
        IF k = (RAM_SIZE - START_ADDR) \div 2 THEN op ELSE 0]

StraightPrograms ==
    {<<XNN(3, 0, 0)>>,
     <<XNN(6, 0, 5), XNN(4, 0, 5), XNN(7, 0, 1), XNN(3, 0, 6), 0, 224, Opcode(8, 1, 0, 0)>>,
     <<0, Opcode(5, 0, 1, 1)>>,
     StraightTo(XNN(3, 0, 0))}

StraightImages == {Bytes(prog) : prog \in StraightPrograms}

LoadStraight == \E data \in StraightImages : Load(data)

\* The host's loop of n calls of tick, where the n opcodes from the program
\* counter on are all NOP, taken at once: each tick fetches 0, adds 2 to the
\* program counter and returns.  The state it ends in is the state the n
\* single Steps end in, record of the last call included.
TickBursts == {64, 256}

NopBurst(n) ==
    /\ panic.kind = "none"
    /\ pc + 2 * n <= RAM_SIZE
    /\ {k \in 0..(n - 1) : ram[pc + 2 * k] * 256 + ram[pc + 2 * k + 1] # 0} = {}
    /\ pc' = pc + 2 * n
    /\ last' = [call |-> "tick", fetched |-> TRUE, op |-> 0,
                pre |-> [Snapshot EXCEPT !.pc = pc + 2 * n - 2],
                fresh |-> FALSE,
                before |-> [fetched |-> TRUE, op |-> 0, v_reg |-> v_reg]]
    /\ UNCHANGED <<ram, screen, v_reg, i_reg, sp, stack, keys, dt, st, panic, trace, cue>>

Burst == \E n \in TickBursts : NopBurst(n)

NextStraight == LoadStraight \/ Tick \/ Burst

SpecStraight == Init /\ [][NextStraight]_vars /\ WF_vars(Tick)

(***************************************************************************)
(* The operands of an opcode and the opcode table, as the instruction set  *)
(* defines them.                                                           *)
(***************************************************************************)
FieldD1(op) == op \div 4096
FieldX(op) == (op \div 256) % 16
FieldY(op) == (op \div 16) % 16
FieldD4(op) == op % 16
FieldNN(op) == op % 256

InTable(op) ==
    \/ op \in {0, 224, 238}
    \/ FieldD1(op) \in {1, 2, 3, 4, 6, 7}
    \/ FieldD1(op) = 5 /\ FieldD4(op) = 0
    \/ FieldD1(op) = 8 /\ FieldD4(op) \in 0..3

\* The last call was a Step that fetched and executed op-like opcodes
\* without a panic.
Completed == last.call = "tick" /\ last.fetched /\ panic.kind = "none"

(***************************************************************************)
(* C1.  Return-address correctness and LIFO order: after n nested CALLs    *)
(* from an empty stack (n in 1..16, no RET in between), the following RETs *)
(* set the program counter, in reverse order of the CALLs, to the address  *)
(* after the corresponding CALL, and after the n-th RET the stack pointer  *)
(* is 0 again.                                                             *)
(***************************************************************************)
CallsThenRets(n, m) ==
    /\ Len(trace) = n + m
    /\ \A k \in 1..n : trace[k].ev = "call"
    /\ \A k \in (n + 1)..(n + m) : trace[k].ev = "ret"

C1_ReturnAddressLifo ==
    \A n \in 1..STACK_SIZE : \A m \in 1..n :
        CallsThenRets(n, m) =>
            /\ \A k \in 1..m : trace[n + k].addr = trace[n + 1 - k].addr
            /\ (m = n /\ Completed /\ last.op = 238) => sp = 0

C1_Witness ==
    /\ CallsThenRets(STACK_SIZE, STACK_SIZE)
    /\ Completed /\ last.op = 238
    /\ sp = 0
    /\ pc = START_ADDR + 2

(***************************************************************************)
(* C2.  Stack bounds faults do not corrupt state: a Step that executes RET *)
(* with stack pointer 0, or CALL with stack pointer 16, raises the bounds  *)
(* fault and leaves the stack and the stack pointer as they were.          *)
(***************************************************************************)
StackFaultCase ==
    /\ last.call = "tick" /\ last.fetched
    /\ \/ last.op = 238 /\ last.pre.sp = 0
       \/ FieldD1(last.op) = 2 /\ last.pre.sp = STACK_SIZE

C2_StackFaultKeepsStack ==
    StackFaultCase =>
        /\ panic.kind \in {"index_out_of_bounds", "arithmetic_overflow"}
        /\ sp = last.pre.sp
        /\ stack = last.pre.stack

(***************************************************************************)
(* C3.  Reset is equivalent to construction: from every state, reset       *)
(* leaves every field as new() constructs it.                              *)
(***************************************************************************)
C3_ResetIsNew == [][Reset => New']_vars

C3_Witness == last.call = "reset" /\ ~last.fresh /\ New

(***************************************************************************)
(* C4.  Unhandled opcodes fault: a Step raises the unimplemented-opcode    *)
(* panic, carrying the opcode, exactly when the opcode is in none of the   *)
(* 14 rows of the table, and then no V register, I register, stack entry,  *)
(* screen pixel, memory byte or timer has changed.                         *)
(***************************************************************************)
C4_UnhandledFaults ==
    [][(Tick /\ ~FetchPanics) =>
          /\ (panic'.kind = "unimplemented") <=> ~InTable(FetchOp)
          /\ ~InTable(FetchOp) =>
                /\ panic'.op = FetchOp
                /\ UNCHANGED <<v_reg, i_reg, stack, screen, ram, dt, st>>]_vars

C4_Witness ==
    /\ panic = [kind |-> "unimplemented", op |-> 20497]
    /\ last.call = "tick" /\ last.op = 20497
    /\ v_reg = NewVReg

(***************************************************************************)
(* C5.  As claimed: in every state reached without a fault the program     *)
(* counter is a valid memory address.                                      *)
(***************************************************************************)
C5_PcInMemory == panic.kind = "none" => pc < RAM_SIZE

(***************************************************************************)
(* C5, amended.  The program counter is at most RAM_SIZE + 2, and every    *)
(* Step that fetched read its two bytes inside memory.                     *)
(***************************************************************************)
C5_PcBounded ==
    /\ pc <= RAM_SIZE + 2
    /\ (last.call = "tick" /\ last.fetched) => last.pre.pc + 1 < RAM_SIZE

C5_Witness == panic.kind = "none" /\ pc = RAM_SIZE + 2 /\ Completed

(***************************************************************************)
(* C6.  Skip instructions skip exactly one instruction: a Step executing   *)
(* 3XNN, 4XNN or 5XY0 leaves the program counter 4 above its value before  *)
(* the Step when the condition holds and 2 above otherwise, and changes    *)
(* nothing else.                                                           *)
(***************************************************************************)
IsSkip(op) == FieldD1(op) \in {3, 4} \/ (FieldD1(op) = 5 /\ FieldD4(op) = 0)

SkipHolds(op, v) ==
    CASE FieldD1(op) = 3 -> v[FieldX(op)] = FieldNN(op)
      [] FieldD1(op) = 4 -> v[FieldX(op)] # FieldNN(op)
      [] OTHER -> v[FieldX(op)] = v[FieldY(op)]

C6_SkipExactlyOne ==
    [][(Tick /\ ~FetchPanics /\ IsSkip(FetchOp)) =>
          /\ pc' = pc + (IF SkipHolds(FetchOp, v_reg) THEN 4 ELSE 2)
          /\ UNCHANGED <<ram, screen, v_reg, i_reg, sp, stack, keys, dt, st, panic>>]_vars

C6_Witness ==
    /\ Completed /\ last.op = 20496
    /\ last.pre.v_reg[0] = 255 /\ last.pre.v_reg[1] = 255
    /\ pc = last.pre.pc + 4

(***************************************************************************)
(* C7.  ADD_IMM is wrapping and sets no flag: a Step executing 7XNN leaves *)
(* V[x] = (v + nn) mod 256, does not panic, and changes no other register. *)
(***************************************************************************)
C7_AddImmWraps ==
    [][(Tick /\ ~FetchPanics /\ FieldD1(FetchOp) = 7) =>
          /\ v_reg' = [v_reg EXCEPT ![FieldX(FetchOp)] =
                          (v_reg[FieldX(FetchOp)] + FieldNN(FetchOp)) % 256]
          /\ panic'.kind = "none"]_vars

C7_Witness ==
    /\ Completed /\ last.op = 28677
    /\ last.pre.v_reg[0] = 255
    /\ v_reg[0] = 4
    /\ v_reg[15] = 0

(***************************************************************************)
(* C8.  The wraparound law as stated: ADD_IMM(x, nn1) then ADD_IMM(x, nn2) *)
(* leaves V[x] = (nn1 + nn2) mod 256, whatever V[x] held before.           *)
(***************************************************************************)
TwoAdds ==
    /\ Completed
    /\ FieldD1(last.op) = 7
    /\ last.before.fetched
    /\ FieldD1(last.before.op) = 7
    /\ FieldX(last.before.op) = FieldX(last.op)

C8_WraparoundLaw ==
    TwoAdds =>
        v_reg[FieldX(last.op)] = (FieldNN(last.before.op) + FieldNN(last.op)) % 256

(***************************************************************************)
(* C8, amended.  With v the value V[x] held before the first of the two    *)
(* ADD_IMMs, they leave V[x] = (v + nn1 + nn2) mod 256.                    *)
(***************************************************************************)
C8_AddTwice ==
    TwoAdds =>
        v_reg[FieldX(last.op)] =
            (last.before.v_reg[FieldX(last.op)]
                + FieldNN(last.before.op) + FieldNN(last.op)) % 256

C8_Witness ==
    /\ TwoAdds
    /\ last.before.v_reg[FieldX(last.op)] = 5
    /\ FieldNN(last.before.op) = 255
    /\ FieldNN(last.op) = 255
    /\ v_reg[FieldX(last.op)] = 3

(***************************************************************************)
(* C9.  Register load, copy and bitwise instructions match their reference *)
(* operators: a Step executing 6XNN leaves V[x] = nn, 8XY0 the old V[y],   *)
(* 8XY1 the bitwise OR of the old V[x] and V[y], 8XY2 the AND, 8XY3 the    *)
(* XOR; no other register changes and the program counter advances by 2.   *)
(***************************************************************************)
BitOf(a, i) == (a \div (2^i)) % 2

RefAnd(a, b) ==
    LET t(i) == BitOf(a, i) * BitOf(b, i) * (2^i)
    IN  t(0) + t(1) + t(2) + t(3) + t(4) + t(5) + t(6) + t(7)

RefOr(a, b) == a + b - RefAnd(a, b)
RefXor(a, b) == a + b - 2 * RefAnd(a, b)

IsRegisterOp(op) == FieldD1(op) = 6 \/ (FieldD1(op) = 8 /\ FieldD4(op) \in 0..3)

RefResult(op, v) ==
    CASE FieldD1(op) = 6 -> FieldNN(op)
      [] FieldD4(op) = 0 -> v[FieldY(op)]
      [] FieldD4(op) = 1 -> RefOr(v[FieldX(op)], v[FieldY(op)])
      [] FieldD4(op) = 2 -> RefAnd(v[FieldX(op)], v[FieldY(op)])
      [] OTHER -> RefXor(v[FieldX(op)], v[FieldY(op)])

C9_RegisterOps ==
    [][(Tick /\ ~FetchPanics /\ IsRegisterOp(FetchOp)) =>
          /\ v_reg' = [v_reg EXCEPT ![FieldX(FetchOp)] = RefResult(FetchOp, v_reg)]
          /\ pc' = pc + 2
          /\ panic'.kind = "none"]_vars

\* The program 6005, 6103, 8011 after its three Steps.
C9_Witness ==
    /\ ram[START_ADDR] = 96 /\ ram[START_ADDR + 1] = 5
    /\ ram[START_ADDR + 2] = 97 /\ ram[START_ADDR + 3] = 3
    /\ ram[START_ADDR + 4] = 128 /\ ram[START_ADDR + 5] = 17
    /\ Completed /\ last.op = 32785 /\ last.before.op = 24835
    /\ v_reg[0] = 7 /\ v_reg[1] = 3
    /\ pc = START_ADDR + 6

(***************************************************************************)
(* C10.  Timers never wrap below zero: a Timer Tick leaves each timer one  *)
(* lower if it was above 0, and 0 if it was 0; it never makes 255 of 0.    *)
(***************************************************************************)
C10_TimersStopAtZero ==
    last.call = "tick_timers" =>
        /\ dt = (IF last.pre.dt > 0 THEN last.pre.dt - 1 ELSE 0)
        /\ st = (IF last.pre.st > 0 THEN last.pre.st - 1 ELSE 0)
        /\ last.pre.dt = 0 => dt # 255
        /\ last.pre.st = 0 => st # 255

C10_Witness ==
    /\ last.call = "tick_timers"
    /\ last.pre.dt = 0 /\ last.pre.st = 255
    /\ dt = 0 /\ st = 254

FontPresent == \A a \in 0..79 : ram[a] = FONTSET[a + 1]

C12_FontTablePresent ==
    /\ []FontPresent
    /\ [][(Tick \/ TickTimers) => UNCHANGED ram]_vars

C12_Witness ==
    /\ ram # NewRam
    /\ ram[START_ADDR] # 0
    /\ Completed
    /\ pc # START_ADDR
    /\ ram[0] = 240 /\ ram[79] = 128

(***************************************************************************)
(* C13.  The key flags are changed only by the host: no Step, whatever it  *)
(* executes and whether it faults or not, and no Timer Tick changes any of *)
(* the 16 key flags.                                                       *)
(***************************************************************************)
C13_KeysOnlyByHost == [][(Tick \/ TickTimers) => UNCHANGED keys]_vars

C13_Witness ==
    /\ keys[0]
    /\ last.call = "tick" /\ last.fetched
    /\ panic.kind = "unimplemented"

(***************************************************************************)
(* C14.  CLS clears the whole screen: whatever the screen held, a Step     *)
(* executing 0x00E0 leaves all 64 * 32 screen entries false, advances the  *)
(* program counter by exactly 2, and changes nothing else.                 *)
(***************************************************************************)
C14_ClsClearsScreen ==
    [][(Tick /\ ~FetchPanics /\ FetchOp = 224) =>
          /\ \A p \in 0..(64 * 32 - 1) : ~screen'[p]
          /\ DOMAIN screen' = 0..(64 * 32 - 1)
          /\ pc' = pc + 2
          /\ UNCHANGED <<ram, v_reg, i_reg, sp, stack, keys, dt, st, panic>>]_vars

C14_Witness ==
    /\ Completed /\ last.op = 224
    /\ last.pre.lit
    /\ \A p \in 0..(64 * 32 - 1) : ~screen[p]
    /\ pc = last.pre.pc + 2
    /\ dt = 2 /\ v_reg[0] = 5

(***************************************************************************)
(* C16.  Step and Timer Tick commute: a Timer Tick changes only the two    *)
(* timers, each as a function of its own value; a Step changes neither     *)
(* timer; and the outcomes of a Step taken after a Timer Tick are the      *)
(* outcomes of the Step taken before it with the timers ticked afterwards  *)
(* (or, where the Step faults, the same fault).                            *)
(***************************************************************************)
\* What a Step from the current state can end in: the machine state, or the
\* fault.
StepOutcomes ==
    IF FetchPanics THEN {[fault |-> "index_out_of_bounds"]}
    ELSE {IF r.panic.kind # "none"
          THEN [fault |-> r.panic.kind]
          ELSE [pc |-> r.pc, ram |-> ram, screen |-> r.screen, v_reg |-> r.v_reg,
                i_reg |-> i_reg, sp |-> r.sp, stack |-> r.stack, keys |-> keys,
                dt |-> dt, st |-> st] : r \in Execute(FetchOp, FetchPc)}

CountDown(t) == IF t = 0 THEN 0 ELSE t - 1

TimersTicked(o) ==
    IF "fault" \in DOMAIN o THEN o
    ELSE [o EXCEPT !.dt = CountDown(o.dt), !.st = CountDown(o.st)]

C16_StepAndTimerTickCommute ==
    [][/\ TickTimers =>
            /\ dt' = CountDown(dt) /\ st' = CountDown(st)
            /\ UNCHANGED <<pc, ram, screen, v_reg, i_reg, sp, stack, keys, panic>>
            /\ StepOutcomes' = {TimersTicked(o) : o \in StepOutcomes}
       /\ Tick => UNCHANGED <<dt, st>>]_vars

C16_Witness ==
    /\ last.call = "tick_timers"
    /\ last.before.fetched
    /\ last.pre.pc # START_ADDR
    /\ last.pre.dt = 2 /\ dt = 1
    /\ last.pre.st = 1 /\ st = 0

(***************************************************************************)
(* C15.  Fetch is big-endian and bounds-checked: a Step from a state with  *)
(* pc + 1 < 4096 fetches memory[pc] * 256 + memory[pc + 1] and advances    *)
(* the program counter by exactly 2 before the opcode executes; a Step     *)
(* from a state with pc >= 4096 or pc + 1 >= 4096 raises the bounds fault, *)
(* executes nothing, and leaves the program counter where it was.          *)
(***************************************************************************)
\* Opcodes whose arm assigns neither the program counter nor the stack.
StraightLine(op) == op \in {0, 224} \/ FieldD1(op) \in {6, 7, 8}

C15_FetchBigEndianBounded ==
    [][Tick =>
          /\ (pc + 1 < 4096) =>
                /\ last'.fetched
                /\ last'.op = ram[pc] * 256 + ram[pc + 1]
                /\ (panic'.kind = "none" /\ StraightLine(last'.op)) => pc' = pc + 2
                /\ (panic'.kind = "none" /\ FieldD1(last'.op) = 2) => stack'[sp] = pc + 2
                /\ (panic'.kind = "unimplemented") =>
                      pc' = pc + 2 /\ panic'.op = ram[pc] * 256 + ram[pc + 1]
          /\ (pc >= 4096 \/ pc + 1 >= 4096) =>
                /\ panic'.kind = "index_out_of_bounds"
                /\ ~last'.fetched
                /\ UNCHANGED <<pc, ram, screen, v_reg, i_reg, sp, stack, keys, dt, st, trace>>]_vars

\* The Step after JMP 0xFFF.
C15_Witness ==
    /\ panic.kind = "index_out_of_bounds"
    /\ last.call = "tick" /\ ~last.fetched
    /\ last.before.op = 8191
    /\ pc = 4095

(***************************************************************************)
(* C17.  Stack pointer invariant: in every reachable state the stack       *)
(* pointer is in 0..16 and equals the number of CALLs minus the number of  *)
(* RETs completed since construction or reset; a CALL raises it by 1 and   *)
(* writes only the slot it pointed at, a RET lowers it by 1 and writes no  *)
(* slot.                                                                   *)
(***************************************************************************)
Completions(ev) == Cardinality({k \in 1..Len(trace) : trace[k].ev = ev})

C17_StackPointerInvariant ==
    /\ sp \in 0..16
    /\ sp = Completions("call") - Completions("ret")
    /\ (Completed /\ FieldD1(last.op) = 2) =>
          /\ sp = last.pre.sp + 1
          /\ stack = [last.pre.stack EXCEPT ![last.pre.sp] = last.pre.pc + 2]
    /\ (Completed /\ last.op = 238) =>
          /\ sp = last.pre.sp - 1
          /\ stack = last.pre.stack

(***************************************************************************)
(* C18.  No 16-bit overflow of the program counter: in every reachable     *)
(* state the program counter is at most 0x1002 and every stack entry at    *)
(* most 0x1000, so no addition to the program counter in fetch or in a     *)
(* skip overflows; the one overflow panic there is comes from the stack    *)
(* pointer, in RET on an empty stack.                                      *)
(***************************************************************************)
C18_NoPcOverflow ==
    /\ pc <= 4098
    /\ \A s \in 0..15 : stack[s] <= 4096
    /\ (last.call = "tick" /\ last.fetched) => last.pre.pc + 4 <= 65535
    /\ pc + 2 <= 65535
    /\ (panic.kind = "arithmetic_overflow") => (last.op = 238 /\ last.pre.sp = 0)

\* CALL 0xFFE stored at 0xFFE has pushed the address after it, 0x1000.
C18_Witness ==
    /\ panic.kind = "none"
    /\ sp >= 1
    /\ stack[0] = 4096
    /\ pc = 4094

(***************************************************************************)
(* C19.  Running off the end of memory faults instead of wrapping: a Step  *)
(* that executes neither JMP, CALL nor RET and does not fault raises the   *)
(* program counter by 2 or by 4, so a run without JMP, CALL and RET ends   *)
(* in a fault; from the constructed state with no program loaded exactly   *)
(* 1792 Steps complete, each a NOP raising the program counter by 2 and    *)
(* changing nothing else, the last leaving it at 0x1000, and the next Step *)
(* raises the bounds fault.                                                *)
(***************************************************************************)
Transfers(op) == op = 238 \/ FieldD1(op) \in {1, 2}

\* The constructed state but for the program counter.
NewButPc ==
    /\ ram = NewRam /\ screen = NewScreen /\ v_reg = NewVReg /\ i_reg = 0
    /\ sp = 0 /\ stack = NewStack /\ keys = NewKeys /\ dt = 0 /\ st = 0

C19_RunsOffTheEnd ==
    /\ [][(Tick /\ ~FetchPanics /\ ~Transfers(FetchOp) /\ panic'.kind = "none") =>
             pc' \in {pc + 2, pc + 4}]_vars
    /\ <>(panic.kind # "none")
    /\ [](ram = NewRam =>
             /\ NewButPc
             /\ \E n \in 0..1792 : pc = 512 + 2 * n
             /\ panic.kind # "none" =>
                   panic.kind = "index_out_of_bounds" /\ pc = 512 + 2 * 1792 /\ pc = 4096)
    /\ [][(Tick /\ ram = NewRam) =>
             IF pc < 512 + 2 * 1792
             THEN pc' = pc + 2 /\ panic'.kind = "none"
             ELSE pc' = pc /\ panic'.kind = "index_out_of_bounds"]_vars

C19_Witness ==
    /\ NewButPc
    /\ pc = 4096
    /\ panic.kind = "index_out_of_bounds"
    /\ last.call = "tick" /\ ~last.fetched
    /\ last.before.fetched /\ last.before.op = 0

====
